---- MODULE Spec2Model ----
(***************************************************************************)
(* Session-scoped request supervision and barge-in cancellation of the     *)
(* voice backend: VoiceSessionManager (backend/app/core/voice_session.py)  *)
(* and the /voice endpoints (backend/app/api/voice.py), run on one asyncio *)
(* event loop.  One action is one uninterrupted run of a handler or of a   *)
(* task between two awaits.                                                *)
(***************************************************************************)
EXTENDS Integers, Sequences, FiniteSets, TLC

\* ---------------------------------------------------------------- bounds
MaxSessions == 2          \* session ids handed out by uuid4: 1..MaxSessions
MaxCalls == 2             \* voice_query calls (one pipeline task each)
MaxTime == 1              \* the clock datetime.utcnow() runs over 0..MaxTime
SessionTimeout == 0       \* VOICE_SESSION_TIMEOUT, in clock ticks
MaxManagers == 2          \* VoiceSessionManager objects ever constructed

\* ------------------------------------------------------------- constants
None == 0                 \* Python None, for ids and tasks
UnknownId == -1           \* a session id no create_session ever returned
Anonymous == "anonymous"
Users == {"u1"}
StageResults == {"ok", "empty"}      \* what a stage port hands back
\* ... and the ways a port can fail to hand anything back
PortResults == StageResults \cup {"raise", "timeout"}
DefaultLanguage == "hi-IN"
Languages == {"hi-IN", "en-IN"}
Empty == <<>>             \* None or "" from a port: "not x" holds
NoBody == [query |-> Empty, response |-> Empty, audio |-> Empty,
           language |-> "", session_id |-> None]
NotOwner == "attempted to end session owned by another user"
NoRet == [op |-> "", sid |-> None, ret |-> FALSE, msg |-> "", log |-> ""]

VARIABLES
    sessions,   \* VoiceSessionManager._sessions: session id -> record
    tasks,      \* asyncio tasks made by voice_query: call id -> record
    calls,      \* voice_query handler frames: call id -> record
    now,        \* datetime.utcnow()
    nextSid,    \* the next id uuid4 gives to create_session
    out,        \* what the step just taken returned to its caller
    manager,    \* the global _session_manager: None, or which object it is
    managers    \* how many VoiceSessionManager objects were constructed

vars == <<sessions, tasks, calls, now, nextSid, out, manager, managers>>

\* --------------------------------------------------------- asyncio.Task
\* task.done()
done(T, t) == T[t].state # "pending"

\* task.cancel(): a request only; a finished task is left as it is, a
\* pending one gets CancelledError thrown at the await it resumes from.
\* must_cancel records that cancel() was called on the task while pending.
\* variant: cancel() that returns only once the task has unwound
task_cancel_sync(T, t) ==
    IF done(T, t) THEN T
    ELSE [T EXCEPT ![t].must_cancel = TRUE, ![t].state = "cancelled",
                   ![t].pc = "end"]

\* variant: cancel() that does nothing
task_cancel_noop(T, t) == T

task_cancel(T, t) ==
    IF done(T, t) THEN T ELSE [T EXCEPT ![t].must_cancel = TRUE]

\* variant: a slot that names a task counts as running, finished or not
running_stale(S, T, sid) == S[sid].active_task # None

\* "active_task is not None and not active_task.done()"
running(S, T, sid) ==
    /\ S[sid].active_task # None
    /\ ~done(T, S[sid].active_task)

\* ------------------------------------------------- VoiceSessionManager
\* variant: the new session replaces the store
create_session_exclusive(S, sid, user_id, t) ==
    sid :> [user_id |-> user_id,
            created_at |-> t,
            last_activity |-> t,
            active_request_id |-> None,
            active_task |-> None]

create_session(S, sid, user_id, t) ==
    S @@ (sid :> [user_id |-> user_id,
                  created_at |-> t,
                  last_activity |-> t,
                  active_request_id |-> None,
                  active_task |-> None])

\* variant: the new request is stored but the old task is left running
register_request_nocancel(S, T, sid, request_id, task, t) ==
    IF sid \notin DOMAIN S
    THEN [sessions |-> S, tasks |-> T, ret |-> FALSE]
    ELSE [sessions |-> [S EXCEPT ![sid].active_request_id = request_id,
                                 ![sid].active_task = task,
                                 ![sid].last_activity = t],
          tasks |-> T,
          ret |-> TRUE]

\* variant: a running request keeps the slot, the new one is dropped
register_request_keep(S, T, sid, request_id, task, t) ==
    IF sid \notin DOMAIN S
    THEN [sessions |-> S, tasks |-> T, ret |-> FALSE]
    ELSE IF running(S, T, sid)
    THEN [sessions |-> [S EXCEPT ![sid].last_activity = t],
          tasks |-> T, ret |-> TRUE]
    ELSE [sessions |-> [S EXCEPT ![sid].active_request_id = request_id,
                                 ![sid].active_task = task,
                                 ![sid].last_activity = t],
          tasks |-> T,
          ret |-> TRUE]

\* variant: an unknown session id is created on the fly
register_request_autocreate(S, T, sid, request_id, task, t) ==
    IF sid \notin DOMAIN S
    THEN [sessions |-> S @@ (sid :> [user_id |-> Anonymous,
                                     created_at |-> t,
                                     last_activity |-> t,
                                     active_request_id |-> request_id,
                                     active_task |-> task]),
          tasks |-> T, ret |-> TRUE]
    ELSE [sessions |-> [S EXCEPT ![sid].active_request_id = request_id,
                                 ![sid].active_task = task,
                                 ![sid].last_activity = t],
          tasks |-> IF running(S, T, sid)
                    THEN task_cancel(T, S[sid].active_task)
                    ELSE T,
          ret |-> TRUE]

\* variant: barge-in cancels the running request of every session
register_request_global(S, T, sid, request_id, task, t) ==
    IF sid \notin DOMAIN S
    THEN [sessions |-> S, tasks |-> T, ret |-> FALSE]
    ELSE [sessions |-> [S EXCEPT ![sid].active_request_id = request_id,
                                 ![sid].active_task = task,
                                 ![sid].last_activity = t],
          tasks |-> [x \in DOMAIN T |->
                       IF \E s \in DOMAIN S : running(S, T, s)
                                                /\ S[s].active_task = x
                       THEN [T[x] EXCEPT !.must_cancel = TRUE]
                       ELSE T[x]],
          ret |-> TRUE]

register_request(S, T, sid, request_id, task, t) ==
    IF sid \notin DOMAIN S
    THEN [sessions |-> S, tasks |-> T, ret |-> FALSE]
    ELSE [sessions |-> [S EXCEPT ![sid].active_request_id = request_id,
                                 ![sid].active_task = task,
                                 ![sid].last_activity = t],
          tasks |-> IF running(S, T, sid)
                    THEN task_cancel(T, S[sid].active_task)
                    ELSE T,
          ret |-> TRUE]

\* variant: the task is cancelled but the slot keeps naming it
cancel_session_request_keepslot(S, T, sid, t) ==
    IF sid \notin DOMAIN S
    THEN [sessions |-> S, tasks |-> T, ret |-> FALSE]
    ELSE IF ~running(S, T, sid)
    THEN [sessions |-> S, tasks |-> T, ret |-> FALSE]
    ELSE [sessions |-> [S EXCEPT ![sid].last_activity = t],
          tasks |-> task_cancel(T, S[sid].active_task),
          ret |-> TRUE]

\* variant: a finished request is cleared from the slot on the way out
cancel_session_request_tidy(S, T, sid, t) ==
    IF sid \notin DOMAIN S
    THEN [sessions |-> S, tasks |-> T, ret |-> FALSE]
    ELSE IF ~running(S, T, sid)
    THEN [sessions |-> [S EXCEPT ![sid].active_request_id = None,
                                 ![sid].active_task = None,
                                 ![sid].last_activity = t],
          tasks |-> T, ret |-> FALSE]
    ELSE [sessions |-> [S EXCEPT ![sid].active_request_id = None,
                                 ![sid].active_task = None,
                                 ![sid].last_activity = t],
          tasks |-> task_cancel(T, S[sid].active_task),
          ret |-> TRUE]

\* variant: a cancellation does not count as activity
cancel_session_request_notouch(S, T, sid, t) ==
    IF sid \notin DOMAIN S
    THEN [sessions |-> S, tasks |-> T, ret |-> FALSE]
    ELSE IF ~running(S, T, sid)
    THEN [sessions |-> S, tasks |-> T, ret |-> FALSE]
    ELSE [sessions |-> [S EXCEPT ![sid].active_request_id = None,
                                 ![sid].active_task = None],
          tasks |-> task_cancel(T, S[sid].active_task),
          ret |-> TRUE]

cancel_session_request(S, T, sid, t) ==
    IF sid \notin DOMAIN S
    THEN [sessions |-> S, tasks |-> T, ret |-> FALSE]
    ELSE IF ~running(S, T, sid)
    THEN [sessions |-> S, tasks |-> T, ret |-> FALSE]
    ELSE [sessions |-> [S EXCEPT ![sid].active_request_id = None,
                                 ![sid].active_task = None,
                                 ![sid].last_activity = t],
          tasks |-> task_cancel(T, S[sid].active_task),
          ret |-> TRUE]

\* variant: a session idle for longer than the timeout is not returned
get_session_fresh(S, sid) ==
    IF sid \in DOMAIN S /\ S[sid].last_activity >= now - SessionTimeout
    THEN {S[sid]} ELSE {}

\* self._sessions.get(session_id): the record, or nothing
get_session(S, sid) == IF sid \in DOMAIN S THEN {S[sid]} ELSE {}

\* variant: the session is dropped but its task is left running
end_session_nocancel(S, T, sid) ==
    IF sid \notin DOMAIN S
    THEN [sessions |-> S, tasks |-> T, ret |-> FALSE]
    ELSE [sessions |-> [x \in DOMAIN S \ {sid} |-> S[x]],
          tasks |-> T,
          ret |-> TRUE]

end_session(S, T, sid) ==
    IF sid \notin DOMAIN S
    THEN [sessions |-> S, tasks |-> T, ret |-> FALSE]
    ELSE [sessions |-> [x \in DOMAIN S \ {sid} |-> S[x]],
          tasks |-> IF running(S, T, sid)
                    THEN task_cancel(T, S[sid].active_task)
                    ELSE T,
          ret |-> TRUE]

\* variant: a session idle for exactly the timeout counts as expired
expired_sessions_inclusive(S, t) ==
    {sid \in DOMAIN S : S[sid].last_activity <= t - SessionTimeout}

\* the list comprehension of cleanup_expired_sessions
expired_sessions(S, t) ==
    {sid \in DOMAIN S : S[sid].last_activity < t - SessionTimeout}

RECURSIVE end_all(_, _, _)
\* "for session_id in expired_sessions: self.end_session(session_id)"
end_all(S, T, ids) ==
    IF ids = {} THEN [sessions |-> S, tasks |-> T]
    ELSE LET sid == CHOOSE x \in ids : TRUE
             r == end_session(S, T, sid)
         IN end_all(r.sessions, r.tasks, ids \ {sid})

cleanup_expired_sessions(S, T, t) ==
    LET ids == expired_sessions(S, t)
        r == end_all(S, T, ids)
    IN [sessions |-> r.sessions, tasks |-> r.tasks, ret |-> Cardinality(ids)]

get_active_session_count(S) == Cardinality(DOMAIN S)

\* variant: every session whose slot names a task is counted
get_active_request_count_stale(S, T) ==
    Cardinality({sid \in DOMAIN S : S[sid].active_task # None})

get_active_request_count(S, T) ==
    Cardinality({sid \in DOMAIN S : running(S, T, sid)})

\* ------------------------------------------- the global session manager
\* variant: a manager is constructed on every call
get_session_manager_new(m, n) == [manager |-> n + 1, managers |-> n + 1]

\* get_session_manager(): the global object, constructed when there is none
get_session_manager(m, n) ==
    IF m = None
    THEN [manager |-> n + 1, managers |-> n + 1]
    ELSE [manager |-> m, managers |-> n]

\* reset_session_manager(): every session of the global manager is ended,
\* then the global is cleared
reset_session_manager(m, S, T) ==
    IF m = None
    THEN [manager |-> None, sessions |-> S, tasks |-> T]
    ELSE LET r == end_all(S, T, DOMAIN S)
         IN [manager |-> None, sessions |-> r.sessions, tasks |-> r.tasks]

\* ------------------------------------------------- voice_query pipeline
\* The stage ports.  What a port answers is a function of what it is given,
\* so that the result shows which values went through which stage.
transcribe_audio(content, language_code) == <<"stt", content, language_code>>
process_voice_query(transcribed_text, language) ==
    <<"llm", language>> \o transcribed_text
text_to_speech(text, language_code) == <<"tts", language_code>> \o text

\* what a port hands back when it answers: its value, or None
answer(res, value) == IF res = "ok" THEN value ELSE Empty

\* a task that has ended keeps its result or exception, not its frame
finish(tk, state, err, result) ==
    [tk EXCEPT !.pc = "end", !.state = state, !.err = err, !.result = result,
               !.transcript = Empty, !.response_text = Empty,
               !.stalled = FALSE]

\* variant: the answering stage is given the raw audio, not the transcript
stages_unchained(tk, res) ==
    CASE tk.pc = "new" -> [tk EXCEPT !.pc = "stt"]
      [] tk.pc = "stt" ->
           IF res \notin StageResults THEN finish(tk, "failed", res, NoBody)
           ELSE LET transcript == answer(res, transcribe_audio("audio", tk.language))
                IN IF transcript = Empty
                   THEN finish(tk, "failed", "http500", NoBody)
                   ELSE [tk EXCEPT !.pc = "llm", !.transcript = transcript]
      [] tk.pc = "llm" ->
           IF res \notin StageResults THEN finish(tk, "failed", res, NoBody)
           ELSE LET response_text ==
                        answer(res, process_voice_query(<<"audio">>, tk.language))
                IN IF response_text = Empty
                   THEN finish(tk, "failed", "http500", NoBody)
                   ELSE [tk EXCEPT !.pc = "tts", !.response_text = response_text]
      [] tk.pc = "tts" ->
           IF res \notin StageResults THEN finish(tk, "failed", res, NoBody)
           ELSE finish(tk, "completed", "",
                       [query |-> tk.transcript,
                        response |-> tk.response_text,
                        audio |-> answer(res, text_to_speech(tk.response_text,
                                                             tk.language)),
                        language |-> tk.language,
                        session_id |-> tk.session_id])

\* One resumption of process_voice when no cancellation is pending: from
\* task creation or from the await of a stage to the next await or to the
\* end.  res is what the stage the task was suspended in produced: an
\* answer (a value or None) or an exception, which ends the task.
stages(tk, res) ==
    CASE tk.pc = "new" -> [tk EXCEPT !.pc = "stt"]
      [] tk.pc = "stt" ->
           IF res \notin StageResults THEN finish(tk, "failed", res, NoBody)
           ELSE LET transcript == answer(res, transcribe_audio("audio", tk.language))
                IN IF transcript = Empty
                   THEN finish(tk, "failed", "http500", NoBody)
                   ELSE [tk EXCEPT !.pc = "llm", !.transcript = transcript]
      [] tk.pc = "llm" ->
           IF res \notin StageResults THEN finish(tk, "failed", res, NoBody)
           ELSE LET response_text ==
                        answer(res, process_voice_query(tk.transcript, tk.language))
                IN IF response_text = Empty
                   THEN finish(tk, "failed", "http500", NoBody)
                   ELSE [tk EXCEPT !.pc = "tts", !.response_text = response_text]
      [] tk.pc = "tts" ->
           IF res \notin StageResults THEN finish(tk, "failed", res, NoBody)
           ELSE finish(tk, "completed", "",
                       [query |-> tk.transcript,
                        response |-> tk.response_text,
                        audio |-> answer(res, text_to_speech(tk.response_text,
                                                             tk.language)),
                        language |-> tk.language,
                        session_id |-> tk.session_id])

\* variant: the pipeline swallows CancelledError and carries on
process_voice_deaf(tk, res) == stages(tk, res)

\* variant: a cancellation that arrives during synthesis is not observed
process_voice_late(tk, res) ==
    IF tk.must_cancel /\ tk.pc # "tts"
    THEN finish(tk, "cancelled", "", NoBody)
    ELSE stages(tk, res)

\* One resumption of process_voice.  A requested cancellation arrives as
\* CancelledError at the await the task resumes from and is re-raised.
process_voice(tk, res) ==
    IF tk.must_cancel
    THEN finish(tk, "cancelled", "", NoBody)
    ELSE stages(tk, res)

\* variant: only StageFailure and Timeout are mapped, anything else the
\* task raised leaves the handler as it is
http_status_raw(tk) ==
    CASE tk.state = "completed" -> 200
      [] tk.state = "cancelled" -> 499
      [] tk.state = "failed" /\ tk.err = "timeout" -> 504
      [] tk.state = "failed" /\ tk.err = "http500" -> 500
      [] OTHER -> 0

\* variant: a cancelled request is reported like any other failure
http_status_generic(tk) ==
    CASE tk.state = "completed" -> 200
      [] OTHER -> 500

\* the try/except around "await task" in voice_query
http_status(tk) ==
    CASE tk.state = "completed" -> 200
      [] tk.state = "cancelled" -> 499
      [] tk.state = "failed" /\ tk.err = "timeout" -> 504
      [] tk.state = "failed" /\ tk.err = "http500" -> 500
      [] OTHER -> 500

\* ----------------------------------------------------------------- Init
Init ==
    /\ sessions = <<>>
    /\ tasks = <<>>
    /\ calls = <<>>
    /\ now = 0
    /\ nextSid = 1
    /\ out = NoRet
    /\ manager = 1           \* constructed when the application starts
    /\ managers = 1

\* -------------------------------------------------------------- actions
\* "manager = get_session_manager()" at the head of an endpoint
use_session_manager ==
    /\ manager = None => managers < MaxManagers
    /\ manager' = get_session_manager(manager, managers).manager
    /\ managers' = get_session_manager(manager, managers).managers

\* POST /voice/session
create_voice_session(u) ==
    /\ nextSid <= MaxSessions
    /\ sessions' = create_session(sessions, nextSid, u, now)
    /\ nextSid' = nextSid + 1
    /\ out' = [op |-> "create", sid |-> nextSid, ret |-> TRUE,
               msg |-> "Session created successfully", log |-> ""]
    /\ UNCHANGED <<tasks, calls, now>>
    /\ use_session_manager

\* variant: a session id that does not resolve is used as it is
voice_query_trusting(arg, language) ==
    LET c == Len(calls) + 1
        fresh == arg = None
    IN /\ c <= MaxCalls
       /\ fresh => nextSid <= MaxSessions
       /\ sessions' = IF fresh
                      THEN create_session(sessions, nextSid, Anonymous, now)
                      ELSE sessions
       /\ nextSid' = IF fresh THEN nextSid + 1 ELSE nextSid
       /\ calls' = Append(calls, [pc |-> "read",
                                  session_id |-> IF fresh THEN nextSid ELSE arg,
                                  language |-> language,
                                  registered |-> FALSE,
                                  status |-> 0,
                                  body |-> NoBody])
       /\ out' = [op |-> "query", sid |-> arg, ret |-> fresh, msg |-> "",
                  log |-> ""]
       /\ UNCHANGED <<tasks, now>>
       /\ use_session_manager

\* POST /voice/query, up to "content = await file.read()"
voice_query(arg, language) ==
    LET c == Len(calls) + 1
        fresh == arg = None \/ get_session(sessions, arg) = {}
    IN /\ c <= MaxCalls
       /\ fresh => nextSid <= MaxSessions
       /\ sessions' = IF fresh
                      THEN create_session(sessions, nextSid, Anonymous, now)
                      ELSE sessions
       /\ nextSid' = IF fresh THEN nextSid + 1 ELSE nextSid
       /\ calls' = Append(calls, [pc |-> "read",
                                  session_id |-> IF fresh THEN nextSid ELSE arg,
                                  language |-> language,
                                  registered |-> FALSE,
                                  status |-> 0,
                                  body |-> NoBody])
       /\ out' = [op |-> "query", sid |-> arg, ret |-> fresh, msg |-> "",
                  log |-> ""]
       /\ UNCHANGED <<tasks, now>>
       /\ use_session_manager

\* ... with the language form field left at its default
voice_query_start(arg) == voice_query(arg, DefaultLanguage)

\* POST /voice/query, from the end of file.read() to "await task"
voice_query_register(c) ==
    /\ c \in DOMAIN calls
    /\ calls[c].pc = "read"
    /\ LET sid == calls[c].session_id
           T == tasks @@ (c :> [pc |-> "new", state |-> "pending",
                                must_cancel |-> FALSE, stalled |-> FALSE,
                                language |-> calls[c].language,
                                session_id |-> sid,
                                transcript |-> Empty,
                                response_text |-> Empty,
                                err |-> "", result |-> NoBody])
           r == register_request(sessions, T, sid, c, c, now)
       IN /\ sessions' = r.sessions
          /\ tasks' = r.tasks
          /\ calls' = [calls EXCEPT ![c].pc = "await", ![c].registered = r.ret]
          /\ out' = NoRet
    /\ UNCHANGED <<now, nextSid>>
    /\ UNCHANGED <<manager, managers>>

\* the port that task t is suspended in never answers
port_stall(t) ==
    /\ t \in DOMAIN tasks
    /\ ~done(tasks, t)
    /\ tasks[t].pc \in {"stt", "llm", "tts"}
    /\ ~tasks[t].stalled
    /\ tasks' = [tasks EXCEPT ![t].stalled = TRUE]
    /\ out' = NoRet
    /\ UNCHANGED <<sessions, calls, now, nextSid>>
    /\ UNCHANGED <<manager, managers>>

\* variant: a request that fails takes its session with it
task_step_fatal(t, res) ==
    /\ t \in DOMAIN tasks
    /\ ~done(tasks, t)
    /\ tasks[t].stalled => tasks[t].must_cancel
    /\ LET T == [tasks EXCEPT ![t] = process_voice(tasks[t], res)]
           r == end_session(sessions, T, T[t].session_id)
       IN IF T[t].state = "failed"
          THEN sessions' = r.sessions /\ tasks' = r.tasks
          ELSE sessions' = sessions /\ tasks' = T
    /\ out' = NoRet
    /\ UNCHANGED <<calls, now, nextSid>>
    /\ UNCHANGED <<manager, managers>>

\* the event loop resumes task t: its port has answered, or cancellation
\* was requested
task_step(t, res) ==
    /\ t \in DOMAIN tasks
    /\ ~done(tasks, t)
    /\ tasks[t].stalled => tasks[t].must_cancel
    /\ tasks' = [tasks EXCEPT ![t] = process_voice(tasks[t], res)]
    /\ out' = NoRet
    /\ UNCHANGED <<sessions, calls, now, nextSid>>
    /\ UNCHANGED <<manager, managers>>

\* variant: answering a request counts as activity of its session
voice_query_respond_touch(c) ==
    /\ c \in DOMAIN calls
    /\ calls[c].pc = "await"
    /\ done(tasks, c)
    /\ calls' = [calls EXCEPT ![c].pc = "done",
                              ![c].status = http_status(tasks[c]),
                              ![c].body = tasks[c].result]
    /\ sessions' = IF calls[c].session_id \in DOMAIN sessions
                   THEN [sessions EXCEPT ![calls[c].session_id].last_activity = now]
                   ELSE sessions
    /\ out' = NoRet
    /\ UNCHANGED <<tasks, now, nextSid>>
    /\ UNCHANGED <<manager, managers>>

\* POST /voice/query, "await task" returns or raises
voice_query_respond(c) ==
    /\ c \in DOMAIN calls
    /\ calls[c].pc = "await"
    /\ done(tasks, c)
    /\ calls' = [calls EXCEPT ![c].pc = "done",
                              ![c].status = http_status(tasks[c]),
                              ![c].body = tasks[c].result]
    /\ out' = NoRet
    /\ UNCHANGED <<sessions, tasks, now, nextSid>>
    /\ UNCHANGED <<manager, managers>>

\* variant: the endpoint without its own session lookup
cancel_voice_request_nolookup(sid) ==
    /\ LET r == cancel_session_request(sessions, tasks, sid, now)
       IN /\ sessions' = r.sessions
          /\ tasks' = r.tasks
          /\ out' = [op |-> "cancel", sid |-> sid, ret |-> r.ret,
                     msg |-> IF r.ret THEN "Request cancelled successfully"
                             ELSE "No active request to cancel",
                     log |-> ""]
    /\ UNCHANGED <<calls, now, nextSid>>
    /\ use_session_manager

\* POST /voice/cancel
cancel_voice_request(sid) ==
    /\ IF get_session(sessions, sid) = {}
       THEN /\ out' = [op |-> "cancel", sid |-> sid, ret |-> FALSE,
                       msg |-> "Session not found or expired", log |-> ""]
            /\ UNCHANGED <<sessions, tasks>>
       ELSE LET r == cancel_session_request(sessions, tasks, sid, now)
            IN /\ sessions' = r.sessions
               /\ tasks' = r.tasks
               /\ out' = [op |-> "cancel", sid |-> sid, ret |-> r.ret,
                          msg |-> IF r.ret THEN "Request cancelled successfully"
                                  ELSE "No active request to cancel",
                     log |-> ""]
    /\ UNCHANGED <<calls, now, nextSid>>
    /\ use_session_manager

\* variant: only the owner may end a session
end_voice_session_owned(sid, u) ==
    /\ IF get_session(sessions, sid) = {}
       THEN /\ out' = [op |-> "end", sid |-> sid, ret |-> FALSE,
                       msg |-> "Session not found", log |-> ""]
            /\ UNCHANGED <<sessions, tasks>>
       ELSE IF sessions[sid].user_id # u
       THEN /\ out' = [op |-> "end", sid |-> sid, ret |-> FALSE,
                       msg |-> "Failed to end session", log |-> NotOwner]
            /\ UNCHANGED <<sessions, tasks>>
       ELSE LET r == end_session(sessions, tasks, sid)
            IN /\ sessions' = r.sessions
               /\ tasks' = r.tasks
               /\ out' = [op |-> "end", sid |-> sid, ret |-> r.ret,
                          msg |-> IF r.ret THEN "Session ended successfully"
                                  ELSE "Failed to end session",
                          log |-> ""]
    /\ UNCHANGED <<calls, now, nextSid>>
    /\ use_session_manager

\* DELETE /voice/session/{session_id}
end_voice_session(sid, u) ==
    /\ IF get_session(sessions, sid) = {}
       THEN /\ out' = [op |-> "end", sid |-> sid, ret |-> FALSE,
                       msg |-> "Session not found", log |-> ""]
            /\ UNCHANGED <<sessions, tasks>>
       ELSE LET r == end_session(sessions, tasks, sid)
            IN /\ sessions' = r.sessions
               /\ tasks' = r.tasks
               /\ out' = [op |-> "end", sid |-> sid, ret |-> r.ret,
                          msg |-> IF r.ret THEN "Session ended successfully"
                                  ELSE "Failed to end session",
                          log |-> IF sessions[sid].user_id # u
                                  THEN NotOwner ELSE ""]
    /\ UNCHANGED <<calls, now, nextSid>>
    /\ use_session_manager

\* manager.end_session called directly (shutdown path, tests)
end_session_call(sid) ==
    /\ LET r == end_session(sessions, tasks, sid)
       IN /\ sessions' = r.sessions
          /\ tasks' = r.tasks
          /\ out' = [op |-> "end_session", sid |-> sid, ret |-> r.ret,
                     msg |-> "", log |-> ""]
    /\ UNCHANGED <<calls, now, nextSid>>
    /\ UNCHANGED <<manager, managers>>

\* the expiry sweep
cleanup ==
    /\ LET r == cleanup_expired_sessions(sessions, tasks, now)
       IN /\ sessions' = r.sessions
          /\ tasks' = r.tasks
          /\ out' = [op |-> "cleanup", sid |-> None, ret |-> r.ret, msg |-> "", log |-> ""]
    /\ UNCHANGED <<calls, now, nextSid>>
    /\ UNCHANGED <<manager, managers>>

\* time passes
tick ==
    /\ now < MaxTime
    /\ now' = now + 1
    /\ out' = NoRet
    /\ UNCHANGED <<sessions, tasks, calls, nextSid>>
    /\ UNCHANGED <<manager, managers>>

\* session ids a client can hold: ids it was given, or one it made up
ClientIds == (1 .. (nextSid - 1)) \cup {UnknownId}

Next ==
    \/ \E u \in Users : create_voice_session(u)
    \/ \E arg \in ClientIds \cup {None} : voice_query_start(arg)
    \/ \E c \in 1 .. MaxCalls : voice_query_register(c)
    \/ \E t \in 1 .. MaxCalls, res \in StageResults : task_step(t, res)
    \/ \E c \in 1 .. MaxCalls : voice_query_respond(c)
    \/ \E sid \in ClientIds : cancel_voice_request(sid)
    \/ \E sid \in ClientIds, u \in Users : end_voice_session(sid, u)
    \/ \E sid \in ClientIds : end_session_call(sid)
    \/ cleanup
    \/ tick

Spec == Init /\ [][Next]_vars

\* application shutdown, or a test, resets the global manager
reset ==
    /\ LET r == reset_session_manager(manager, sessions, tasks)
       IN /\ manager' = r.manager
          /\ sessions' = r.sessions
          /\ tasks' = r.tasks
    /\ out' = [op |-> "reset", sid |-> None, ret |-> manager # None,
               msg |-> "", log |-> ""]
    /\ UNCHANGED <<calls, now, nextSid, managers>>

\* The same system when the global manager can be reset while it serves
MgrNext ==
    \/ Next
    \/ reset

MgrSpec == Init /\ [][MgrNext]_vars

\* The event loop runs every task that is ready: a pending task is
\* eventually resumed, and a handler awaiting a finished task too.
FairSpec ==
    /\ Spec
    /\ \A c \in 1 .. MaxCalls :
          /\ WF_vars(\E res \in StageResults : task_step(c, res))
          /\ WF_vars(voice_query_respond(c))

\* The same system with the stage ports seen as the fallible collaborators
\* they are: a port may answer, answer nothing, raise, or never answer, and
\* the caller chooses the language.  Sessions are opened by voice_query
\* itself here.
PipeNext ==
    \/ \E arg \in ClientIds \cup {None}, language \in Languages :
          voice_query(arg, language)
    \/ \E c \in 1 .. MaxCalls : voice_query_register(c)
    \/ \E t \in 1 .. MaxCalls, res \in PortResults : task_step(t, res)
    \/ \E t \in 1 .. MaxCalls : port_stall(t)
    \/ \E c \in 1 .. MaxCalls : voice_query_respond(c)
    \/ \E sid \in ClientIds : cancel_voice_request(sid)
    \/ \E sid \in ClientIds, u \in Users : end_voice_session(sid, u)
    \/ cleanup
    \/ tick

PipeSpec == Init /\ [][PipeNext]_vars

PipeFairSpec ==
    /\ PipeSpec
    /\ \A c \in 1 .. MaxCalls :
          /\ WF_vars(\E res \in PortResults : task_step(c, res))
          /\ WF_vars(voice_query_respond(c))

\* ============================================================== properties
CallIds == 1 .. MaxCalls
SessionIds == 1 .. MaxSessions

\* the handles register_request accepted for session sid
RegisteredFor(sid) ==
    {c \in DOMAIN tasks : calls[c].registered /\ calls[c].session_id = sid}

\* the step just taken was call c's create_task + register_request
RegisterStep(c) ==
    /\ c \in DOMAIN calls
    /\ calls[c].pc = "read"
    /\ calls'[c].pc = "await"

\* the step just taken was POST /voice/cancel for sid
CancelStep(sid) == out'.op = "cancel" /\ out'.sid = sid

\* the session exists and its stored task has not finished
Active(sid) == sid \in DOMAIN sessions /\ running(sessions, tasks, sid)

\* once cancellation is requested a task can only stay pending or end Cancelled
CancelledOnceRequested ==
    \A c \in DOMAIN tasks :
        tasks[c].must_cancel => tasks'[c].state \in {"pending", "cancelled"}

\* ---------------------------------------------------------------------- C1
\* C1 as stated: of all handles ever registered for a session, at most one
\* is non-terminal.
C1_AtMostOneNonTerminalEver ==
    \A sid \in SessionIds :
        Cardinality({c \in RegisteredFor(sid) : ~done(tasks, c)}) <= 1

\* C1 as amended: of all handles ever registered for a session, at most one
\* is non-terminal without a cancellation request, and that one is the
\* handle in the session's active slot.
C1_AtMostOneLiveHandle ==
    \A sid \in SessionIds :
        LET live == {c \in RegisteredFor(sid) :
                        ~done(tasks, c) /\ ~tasks[c].must_cancel}
        IN /\ Cardinality(live) <= 1
           /\ \A c \in live : /\ sid \in DOMAIN sessions
                              /\ sessions[sid].active_task = c

\* two handles of one session are non-terminal, the older one cancelling
C1_Witness ==
    \E sid \in DOMAIN sessions : \E c1, c2 \in RegisteredFor(sid) :
        /\ c1 # c2
        /\ ~done(tasks, c1) /\ tasks[c1].must_cancel
        /\ ~done(tasks, c2) /\ sessions[sid].active_task = c2

\* ---------------------------------------------------------------------- C2
\* C2: register_request on an existing session whose active task is running
\* requests cancellation of that task, stores the new request and task in
\* the active slot and returns True, in the same step: after it the old task
\* is still pending (nothing waited for it to unwind).
C2_RegisterCancelsAndReplaces ==
    [][\A c \in CallIds :
          (RegisterStep(c) /\ Active(calls[c].session_id)) =>
             LET sid == calls[c].session_id
                 old == sessions[sid].active_task
             IN /\ tasks'[old].must_cancel
                /\ tasks'[old].state = "pending"
                /\ sessions'[sid].active_request_id = c
                /\ sessions'[sid].active_task = c
                /\ calls'[c].registered
                /\ tasks'[c].state = "pending" /\ ~tasks'[c].must_cancel]_vars

\* right after a barge-in: the new task not yet started, the old one
\* cancelling and not yet unwound
C2_Witness ==
    \E sid \in DOMAIN sessions : \E c1, c2 \in RegisteredFor(sid) :
        /\ c1 # c2
        /\ tasks[c1].must_cancel /\ tasks[c1].state = "pending"
        /\ tasks[c1].pc # "new"
        /\ sessions[sid].active_request_id = c2
        /\ tasks[c2].pc = "new"

\* ---------------------------------------------------------------------- C3
\* C3: last write wins.  A register_request that returns True makes its
\* request id the session's active request id; after that the id changes
\* only by a later register_request (to that call's id) or by a
\* cancel_session_request that returns True (to None): no other step, a
\* task finishing included, queues, merges or restores a registration.
C3_LastWriteWins ==
    [][\A sid \in DOMAIN sessions' :
          IF \E c \in CallIds : RegisterStep(c) /\ calls[c].session_id = sid
          THEN \A c \in CallIds :
                  (RegisterStep(c) /\ calls[c].session_id = sid) =>
                      /\ calls'[c].registered
                      /\ sessions'[sid].active_request_id = c
          ELSE IF sid \notin DOMAIN sessions
          THEN sessions'[sid].active_request_id = None
          ELSE sessions'[sid].active_request_id # sessions[sid].active_request_id
                  => /\ CancelStep(sid) /\ out'.ret
                     /\ sessions'[sid].active_request_id = None]_vars

\* the later registration holds the slot after the earlier one finished
C3_Witness ==
    \E sid \in DOMAIN sessions : \E c1, c2 \in RegisteredFor(sid) :
        /\ c1 # c2
        /\ tasks[c1].must_cancel /\ done(tasks, c1)
        /\ sessions[sid].active_request_id = c2

\* ---------------------------------------------------------------------- C4
\* a handle registered for a session whose active slot has since been given
\* to another handle while this one was still running
Superseded(c) ==
    /\ c \in DOMAIN tasks
    /\ ~done(tasks, c)
    /\ \E sid \in DOMAIN sessions :
          /\ c \in RegisteredFor(sid)
          /\ sessions[sid].active_task \notin {None, c}

Cancelled(c) == c \in DOMAIN tasks /\ tasks[c].state = "cancelled"

\* C4: barge-in replacement.  When T2 is registered for S while S's task T1
\* is running, S's active handle is T2 from that step on, T1 eventually
\* ends Cancelled, and as soon as S's active task has finished
\* get_active_request_count is the count over the other sessions.
C4_BargeInReplacement ==
    /\ \A c \in CallIds : Superseded(c) ~> Cancelled(c)
    /\ [][\A c \in CallIds :
            (RegisterStep(c) /\ Active(calls[c].session_id)) =>
                sessions'[calls[c].session_id].active_task = c]_vars
    /\ [](\A sid \in DOMAIN sessions :
            (sessions[sid].active_task # None /\ ~running(sessions, tasks, sid))
              => get_active_request_count(sessions, tasks)
                   = Cardinality({x \in DOMAIN sessions \ {sid} :
                                     running(sessions, tasks, x)}))

\* T1 ended Cancelled, T2 holds the slot and has completed, nothing counted
C4_Witness ==
    \E sid \in DOMAIN sessions : \E c1, c2 \in RegisteredFor(sid) :
        /\ c1 # c2
        /\ tasks[c1].state = "cancelled"
        /\ sessions[sid].active_task = c2
        /\ tasks[c2].state = "completed"
        /\ get_active_request_count(sessions, tasks) = 0

\* ---------------------------------------------------------------------- C5
\* C5: of the tasks registered one after another for one session with none
\* finishing in between, every task but the last has cancellation requested
\* by the registration that follows it and can then only end Cancelled; the
\* last one has no cancellation requested, is never Cancelled while it holds
\* the slot, and a task without a cancellation request never ends Cancelled.
C5_OnlyLastSurvives ==
    [][/\ CancelledOnceRequested
       /\ \A c \in CallIds :
            (RegisterStep(c) /\ Active(calls[c].session_id)) =>
                tasks'[sessions[calls[c].session_id].active_task].must_cancel
       /\ \A c \in DOMAIN tasks :
            (~tasks[c].must_cancel /\ ~done(tasks, c))
                => tasks'[c].state # "cancelled"
       /\ \A sid \in DOMAIN sessions' :
            sessions'[sid].active_task # None =>
                /\ ~tasks'[sessions'[sid].active_task].must_cancel
                /\ tasks'[sessions'[sid].active_task].state # "cancelled"]_vars

\* N = MaxCalls tasks registered for one session: all but the last ended
\* Cancelled, the last completed
C5_Witness ==
    \E sid \in DOMAIN sessions :
        /\ RegisteredFor(sid) = CallIds
        /\ \E c \in CallIds :
              /\ sessions[sid].active_task = c
              /\ tasks[c].state = "completed"
              /\ \A d \in CallIds \ {c} : tasks[d].state = "cancelled"

\* ---------------------------------------------------------------------- C6
\* C6: at the HTTP boundary a voice_query whose task had cancellation
\* requested (it was superseded while running) answers 499, and a
\* voice_query whose task had none and whose stages did not fail answers 200.
C6_SupersededGets499 ==
    \A c \in DOMAIN calls :
        calls[c].pc = "done" =>
            /\ tasks[c].must_cancel => calls[c].status = 499
            /\ (~tasks[c].must_cancel /\ tasks[c].state # "failed")
                  => calls[c].status = 200

\* both callers of one session have their answers: 499 and 200
C6_Witness ==
    \E sid \in DOMAIN sessions : \E c1, c2 \in RegisteredFor(sid) :
        /\ c1 # c2
        /\ calls[c1].pc = "done" /\ calls[c1].status = 499
        /\ calls[c2].pc = "done" /\ calls[c2].status = 200
        /\ sessions[sid].active_request_id = c2

\* ---------------------------------------------------------------------- C7
\* C7: register_request on a session id that is not in the store returns
\* False, leaves the store as it was (no session created or modified) and
\* requests cancellation of no task, the task passed in included.
C7_RegisterUnknownIsNoOp ==
    [][\A c \in CallIds :
          (RegisterStep(c) /\ calls[c].session_id \notin DOMAIN sessions) =>
              /\ ~calls'[c].registered
              /\ sessions' = sessions
              /\ \A t \in DOMAIN tasks : tasks'[t] = tasks[t]
              /\ tasks'[c].state = "pending" /\ ~tasks'[c].must_cancel]_vars

\* a task was refused by register_request
C7_Witness ==
    \E c \in DOMAIN tasks :
        /\ ~calls[c].registered
        /\ calls[c].session_id \notin DOMAIN sessions

\* ---------------------------------------------------------------------- C8
\* C8: cancel_session_request on an existing session whose active task is
\* running returns True, requests cancellation of that task (which from
\* then on can only end Cancelled) and leaves the session in the store,
\* otherwise as it was, with active_request_id and active_task None.
C8_CancelClearsSlot ==
    [][/\ CancelledOnceRequested
       /\ \A sid \in SessionIds :
            (CancelStep(sid) /\ Active(sid)) =>
                /\ out'.ret
                /\ tasks'[sessions[sid].active_task].must_cancel
                /\ sid \in DOMAIN sessions'
                /\ sessions'[sid].active_request_id = None
                /\ sessions'[sid].active_task = None
                /\ sessions'[sid].user_id = sessions[sid].user_id
                /\ sessions'[sid].created_at = sessions[sid].created_at
                /\ DOMAIN sessions' = DOMAIN sessions]_vars

\* an explicit cancel has just emptied the slot of a running request
C8_Witness ==
    /\ out.op = "cancel" /\ out.ret
    /\ out.sid \in DOMAIN sessions
    /\ sessions[out.sid].active_task = None
    /\ \E c \in RegisteredFor(out.sid) :
          tasks[c].must_cancel /\ ~done(tasks, c)

C10_CancelEndpointOutcome ==
    [][\A sid \in SessionIds \cup {UnknownId} :
          CancelStep(sid) =>
              /\ out'.msg = "Session not found or expired"
                    <=> sid \notin DOMAIN sessions
              /\ out'.msg = "No active request to cancel"
                    <=> (sid \in DOMAIN sessions /\ ~Active(sid))
              /\ out'.msg = "Request cancelled successfully" <=> Active(sid)
              /\ out'.ret <=> Active(sid)]_vars

\* the endpoint told a known session that nothing was running
C10_Witness ==
    /\ out.op = "cancel"
    /\ out.msg = "No active request to cancel"
    /\ out.sid \in DOMAIN sessions
    /\ sessions[out.sid].active_task = None

\* --------------------------------------------------------------------- C11
\* the step just taken was end_session on sid, directly or by the endpoint
EndStep(sid) == out'.op \in {"end", "end_session"} /\ out'.sid = sid

\* the running tasks of the sessions in ids have cancellation requested and
\* are still pending after the step; no other task is touched
CancelsExactly(ids) ==
    \A t \in DOMAIN tasks :
        IF \E sid \in ids : running(sessions, tasks, sid)
                              /\ sessions[sid].active_task = t
        THEN tasks'[t] = [tasks[t] EXCEPT !.must_cancel = TRUE]
        ELSE tasks'[t] = tasks[t]

\* C11: end_session on an existing session requests cancellation of its
\* running task, removes the session and returns True in the same step (the
\* task is still pending after it); on an absent session it returns False
\* and changes nothing; a removed session id never comes back, so a second
\* end_session returns False.
C11_EndSession ==
    [][/\ \A sid \in SessionIds \cup {UnknownId} :
            EndStep(sid) =>
                IF sid \in DOMAIN sessions
                THEN /\ out'.ret
                     /\ CancelsExactly({sid})
                     /\ sessions' = [x \in DOMAIN sessions \ {sid} |-> sessions[x]]
                     /\ get_session(sessions', sid) = {}
                ELSE /\ ~out'.ret
                     /\ UNCHANGED <<sessions, tasks, calls, now, nextSid>>
       /\ \A sid \in 1 .. (nextSid - 1) :
            sid \notin DOMAIN sessions => sid \notin DOMAIN sessions']_vars

\* a session has just been ended under its running task
C11_Witness ==
    /\ out.op \in {"end", "end_session"} /\ out.ret = TRUE
    /\ out.sid \notin DOMAIN sessions
    /\ \E c \in RegisteredFor(out.sid) :
          tasks[c].must_cancel /\ ~done(tasks, c)

\* --------------------------------------------------------------------- C12
\* C12: cleanup_expired_sessions removes exactly the sessions with
\* now - last_activity > timeout, requests cancellation of their running
\* tasks as end_session does, returns how many it removed and leaves every
\* other session as it was.
C12_SweepRemovesExactlyExpired ==
    [][out'.op = "cleanup" =>
          LET gone == {sid \in DOMAIN sessions :
                          now - sessions[sid].last_activity > SessionTimeout}
          IN /\ sessions' = [x \in DOMAIN sessions \ gone |-> sessions[x]]
             /\ CancelsExactly(gone)
             /\ out'.ret = Cardinality(gone)
             /\ UNCHANGED <<calls, now, nextSid>>]_vars

\* a sweep has just removed an idle session under its running task and
\* kept a session touched at the current instant
C12_Witness ==
    /\ out.op = "cleanup" /\ out.ret = 1
    /\ \E sid \in DOMAIN sessions : sessions[sid].last_activity = now
    /\ \E c \in DOMAIN tasks :
          /\ calls[c].registered
          /\ calls[c].session_id \notin DOMAIN sessions
          /\ tasks[c].must_cancel /\ ~done(tasks, c)

\* --------------------------------------------------------------------- C13
\* sessions whose stored task is pending
PendingSlots(S, T) ==
    {sid \in DOMAIN S :
        S[sid].active_task # None /\ T[S[sid].active_task].state = "pending"}

\* C13: get_active_session_count is the number of sessions created and not
\* yet ended or swept (it grows by the sessions a step creates and shrinks
\* by those it ends or sweeps), get_active_request_count is the number of
\* sessions whose active task is present and pending, and the step in which
\* a session's active task finishes lowers it by one with no manager call.
C13_Counts ==
    [][/\ get_active_session_count(sessions')
            = get_active_session_count(sessions)
                + (nextSid' - nextSid)
                - (IF out'.op \in {"end", "end_session"} /\ out'.ret = TRUE
                   THEN 1
                   ELSE IF out'.op = "cleanup" THEN out'.ret ELSE 0)
       /\ get_active_request_count(sessions', tasks')
            = Cardinality(PendingSlots(sessions', tasks'))
       /\ \A t \in DOMAIN tasks :
            (/\ ~done(tasks, t) /\ done(tasks', t)
             /\ \E sid \in DOMAIN sessions : sessions[sid].active_task = t)
               => /\ sessions' = sessions
                  /\ get_active_request_count(sessions', tasks')
                       = get_active_request_count(sessions, tasks) - 1]_vars

\* two sessions, one with a running task and one whose task has finished
C13_Witness ==
    /\ get_active_session_count(sessions) = 2
    /\ get_active_request_count(sessions, tasks) = 1
    /\ \E sid \in DOMAIN sessions :
          /\ sessions[sid].active_task # None
          /\ done(tasks, sessions[sid].active_task)

\* ---------------------------------------------------------------- C14
\* voice_query has just been entered with session id "supplied"
QueryStep(supplied) == out'.op = "query" /\ out'.sid = supplied

\* the request of call c has just been answered
RespondStep(c) ==
    c \in DOMAIN calls /\ calls[c].pc = "await" /\ calls'[c].pc = "done"

\* C14: voice_query called with no session id, or with one that does not
\* resolve, is not rejected: it creates a new anonymous session whose id
\* differs from the one supplied and goes on under it; the pipeline task it
\* then starts runs under that session, and a success result carries that
\* session's id.
C14_UnknownSessionCreatesNew ==
    [][ /\ \A supplied \in {None, UnknownId} \cup SessionIds :
             (QueryStep(supplied) /\ supplied \notin DOMAIN sessions) =>
                LET c == Len(calls')
                    sid == calls'[c].session_id
                IN /\ c = Len(calls) + 1
                   /\ calls'[c].pc = "read"
                   /\ sid # supplied
                   /\ sid \notin DOMAIN sessions
                   /\ DOMAIN sessions' = DOMAIN sessions \cup {sid}
                   /\ sessions'[sid].user_id = Anonymous
                   /\ sessions'[sid].active_task = None
        /\ \A c \in CallIds :
             /\ c \in DOMAIN calls => calls'[c].session_id = calls[c].session_id
             /\ RegisterStep(c) => tasks'[c].session_id = calls[c].session_id
             /\ (RespondStep(c) /\ calls'[c].status = 200) =>
                    calls'[c].body.session_id = calls[c].session_id
      ]_vars

\* a call made with an id that does not resolve has just been taken on
\* under a session of its own
C14_Witness ==
    /\ out.op = "query"
    /\ out.sid = UnknownId
    /\ calls # <<>>
    /\ calls[Len(calls)].session_id \in DOMAIN sessions
    /\ sessions[calls[Len(calls)].session_id].user_id = Anonymous

\* ---------------------------------------------------------------- C15
\* what a request in language L under session S answers when every stage
\* answers: each stage is fed what the stage before it produced
FullResult(L, S) ==
    LET query == transcribe_audio("audio", L)
        response == process_voice_query(query, L)
    IN [query |-> query,
        response |-> response,
        audio |-> text_to_speech(response, L),
        language |-> L,
        session_id |-> S]

\* task c is resumed with an answer from the port it was suspended in, and
\* no cancellation is pending
AnsweredStep(c) ==
    /\ c \in DOMAIN tasks
    /\ ~tasks[c].must_cancel
    /\ task_step(c, "ok")

\* C15: voice_query called with an existing session id S runs under S
\* without touching the store; when every stage answers and no cancellation
\* is requested the task goes through transcribe, answer, synthesize in that
\* order, each stage fed the output of the one before, and the request is
\* answered 200 with exactly {query, response, audio, language, session_id}
\* made of the three outputs, the requested language and S.
C15_FullSuccessResult ==
    [][ /\ \A S \in SessionIds :
             (QueryStep(S) /\ S \in DOMAIN sessions) =>
                /\ calls'[Len(calls')].session_id = S
                /\ sessions' = sessions
        /\ \A c \in CallIds :
             /\ AnsweredStep(c) =>
                  LET L == calls[c].language
                      query == transcribe_audio("audio", L)
                      response == process_voice_query(query, L)
                  IN CASE tasks[c].pc = "new" -> tasks'[c].pc = "stt"
                       [] tasks[c].pc = "stt" ->
                            /\ tasks'[c].pc = "llm"
                            /\ tasks'[c].transcript = query
                       [] tasks[c].pc = "llm" ->
                            /\ tasks[c].transcript = query
                            /\ tasks'[c].pc = "tts"
                            /\ tasks'[c].response_text = response
                       [] tasks[c].pc = "tts" ->
                            /\ tasks[c].response_text = response
                            /\ tasks'[c].state = "completed"
                            /\ tasks'[c].result =
                                 FullResult(L, calls[c].session_id)
             /\ (RespondStep(c) /\ tasks[c].state = "completed"
                   /\ tasks[c].result.audio # Empty) =>
                    /\ calls'[c].status = 200
                    /\ calls'[c].body =
                         FullResult(calls[c].language, calls[c].session_id)
      ]_vars

\* the second request of a session, made in a language other than the
\* default, has been answered in full
C15_Witness ==
    /\ Len(calls) = 2
    /\ calls[2].session_id = calls[1].session_id
    /\ calls[2].language # DefaultLanguage
    /\ calls[2].pc = "done"
    /\ calls[2].status = 200
    /\ calls[2].body.audio # Empty
    /\ calls[2].body.session_id = calls[1].session_id

\* ---------------------------------------------------------------- C16
\* C16: a request never ends as a success result when a stage returned an
\* empty or absent value: an answer with status 200 carries a non-empty
\* transcript, a non-empty response and non-empty audio.
C16_NoSuccessOnEmptyStage ==
    \A c \in DOMAIN calls :
        calls[c].status = 200 =>
            /\ calls[c].body.query # Empty
            /\ calls[c].body.response # Empty
            /\ calls[c].body.audio # Empty

\* ---------------------------------------------------------------- C17
\* C17: a request whose task had its cancellation requested ends cancelled
\* whatever its stage port produced, and is answered 499, never 500 or 504;
\* a request that ended in a stage failure, a timeout or another exception
\* is answered 500 or 504, never 499.
C17_CancelledIsDistinct ==
    /\ \A t \in DOMAIN tasks :
          done(tasks, t) =>
             (tasks[t].must_cancel <=> tasks[t].state = "cancelled")
    /\ \A c \in DOMAIN calls :
          calls[c].pc = "done" =>
             /\ tasks[c].state = "cancelled" => calls[c].status = 499
             /\ tasks[c].state = "failed" => calls[c].status \in {500, 504}
             /\ calls[c].status = 499 => tasks[c].must_cancel

\* one request was answered 499 after a cancellation and another 504 after
\* a timeout of its stage
C17_Witness ==
    \E c, d \in DOMAIN calls :
        /\ calls[c].pc = "done" /\ tasks[c].must_cancel
        /\ calls[c].status = 499
        /\ calls[d].pc = "done" /\ tasks[d].err = "timeout"
        /\ calls[d].status = 504

\* ---------------------------------------------------------------- C18
\* C18: every submitted request eventually reaches a terminal outcome: none
\* stays running forever on a stage that never returns.
C18_EveryRequestEnds ==
    \A c \in CallIds : (c \in DOMAIN tasks) ~> (c \in DOMAIN tasks /\ done(tasks, c))

\* ---------------------------------------------------------------- C19
\* task t has just ended in a failure (StageFailure, Timeout or another
\* exception of its port)
FailStep(t) ==
    /\ t \in DOMAIN tasks
    /\ ~done(tasks, t)
    /\ tasks'[t].state = "failed"

\* C19: a request that ends in StageFailure or Timeout leaves the session
\* store as it is, when its task ends and when the failure is answered; a
\* following register_request on its session returns True and installs
\* the new request without cancelling anything.
C19_FailureKeepsSessionUsable ==
    [][ \A c \in CallIds :
          /\ FailStep(c) => sessions' = sessions
          /\ (RespondStep(c) /\ tasks[c].state = "failed") =>
                sessions' = sessions
          /\ RegisterStep(c) =>
               LET sid == calls[c].session_id
               IN (/\ sid \in DOMAIN sessions
                   /\ sessions[sid].active_task # None
                   /\ tasks[sessions[sid].active_task].state = "failed") =>
                      /\ calls'[c].registered
                      /\ sessions'[sid].active_task = c
                      /\ sessions'[sid].active_request_id = c
                      /\ \A t \in DOMAIN tasks : tasks'[t] = tasks[t]
      ]_vars

\* the request that follows a timed-out one in the same session is
\* registered and active
C19_Witness ==
    /\ Len(calls) = 2
    /\ calls[2].session_id = calls[1].session_id
    /\ 1 \in DOMAIN tasks
    /\ tasks[1].state = "failed" /\ tasks[1].err = "timeout"
    /\ ~tasks[1].must_cancel
    /\ calls[2].registered
    /\ calls[2].session_id \in DOMAIN sessions
    /\ sessions[calls[2].session_id].active_task = 2

\* ---------------------------------------------------------------- C20
\* the port task c is suspended in raises e, and no cancellation is pending
RaiseStep(c, e) ==
    /\ c \in DOMAIN tasks
    /\ ~tasks[c].must_cancel
    /\ tasks[c].pc \in {"stt", "llm", "tts"}
    /\ task_step(c, e)

\* C20: an exception other than cancellation raised by a stage port ends
\* the task as failed with that exception and leaves the session store
\* unchanged; the handler answers it with an HTTP error status (504 for a
\* TimeoutError, 500 for anything else) and no result.
C20_PortExceptionIsReported ==
    [][ \A c \in CallIds :
          /\ \A e \in PortResults \ StageResults :
               RaiseStep(c, e) =>
                  /\ tasks'[c].state = "failed"
                  /\ tasks'[c].err = e
                  /\ sessions' = sessions
          /\ (RespondStep(c) /\ tasks[c].state = "failed"
                /\ tasks[c].err \in PortResults \ StageResults) =>
                 /\ calls'[c].status = IF tasks[c].err = "timeout" THEN 504 ELSE 500
                 /\ calls'[c].body = NoBody
                 /\ sessions' = sessions
      ]_vars

\* a request whose port raised has been answered 500 while its session is
\* still in the store
C20_Witness ==
    \E c \in DOMAIN calls :
        /\ calls[c].pc = "done"
        /\ tasks[c].err = "raise"
        /\ calls[c].status = 500
        /\ calls[c].session_id \in DOMAIN sessions

\* ---------------------------------------------------------------- C21
\* the step leaves every session other than S as it was and touches no
\* task but those registered under S
OnlyTouches(S) ==
    /\ \A x \in DOMAIN sessions \ {S} :
          x \in DOMAIN sessions' /\ sessions'[x] = sessions[x]
    /\ \A t \in DOMAIN tasks :
          tasks'[t] # tasks[t] =>
             calls[t].session_id = S /\ calls[t].registered

\* C21: register_request, cancel_session_request and end_session on session
\* S leave every other session's record unchanged and touch no task
\* registered under another session; cancellation of a task is requested
\* only by a registration, a cancel or an end on the task's own session, or
\* by the sweep, so requests on distinct sessions do not disturb one another.
C21_SessionsIndependent ==
    [][ /\ \A c \in CallIds :
             RegisterStep(c) => OnlyTouches(calls[c].session_id)
        /\ \A sid \in SessionIds \cup {UnknownId} :
             (CancelStep(sid) \/ EndStep(sid)) => OnlyTouches(sid)
        /\ \A t \in DOMAIN tasks :
             (tasks'[t].must_cancel /\ ~tasks[t].must_cancel) =>
                LET S == calls[t].session_id
                IN \/ \E c \in CallIds :
                        RegisterStep(c) /\ calls[c].session_id = S
                   \/ CancelStep(S)
                   \/ EndStep(S)
                   \/ out'.op = "cleanup"
      ]_vars

\* one session has just been ended while the request of another session is
\* running, registered and not asked to stop
C21_Witness ==
    /\ Len(calls) = 2
    /\ out.op = "end" /\ out.ret = TRUE
    /\ out.sid = calls[1].session_id
    /\ calls[2].session_id # calls[1].session_id
    /\ calls[2].session_id \in DOMAIN sessions
    /\ calls[1].registered /\ calls[2].registered
    /\ tasks[1].must_cancel
    /\ sessions[calls[2].session_id].active_task = 2
    /\ ~done(tasks, 2) /\ ~tasks[2].must_cancel

\* ---------------------------------------------------------------- C22
\* C22: every register_request that returns True and every
\* cancel_session_request that returns True sets the session's
\* last_activity to the current time; last_activity never decreases,
\* created_at never changes and last_activity is never earlier than it.
C22_LastActivity ==
    [][ /\ \A c \in CallIds :
             (RegisterStep(c) /\ calls'[c].registered) =>
                sessions'[calls[c].session_id].last_activity = now
        /\ \A sid \in SessionIds :
             /\ (CancelStep(sid) /\ out'.ret) =>
                   sessions'[sid].last_activity = now
             /\ (sid \in DOMAIN sessions /\ sid \in DOMAIN sessions') =>
                   /\ sessions'[sid].last_activity >= sessions[sid].last_activity
                   /\ sessions'[sid].created_at = sessions[sid].created_at
             /\ sid \in DOMAIN sessions' =>
                   sessions'[sid].last_activity >= sessions'[sid].created_at
      ]_vars

\* a cancellation has just refreshed a session that was created earlier
C22_Witness ==
    /\ out.op = "cancel" /\ out.ret = TRUE
    /\ out.sid \in DOMAIN sessions
    /\ sessions[out.sid].last_activity = now
    /\ sessions[out.sid].created_at < now

\* ---------------------------------------------------------------- C23
\* C23: create_session returns the id no session has or had, adds exactly
\* one record with that id, the given owner, created_at = last_activity =
\* the current time and an empty active request, and leaves every existing
\* session unchanged.
C23_CreateSession ==
    [][ /\ nextSid' # nextSid =>
             LET sid == nextSid
             IN /\ nextSid' = nextSid + 1
                /\ sid \notin DOMAIN sessions
                /\ DOMAIN sessions' = DOMAIN sessions \cup {sid}
                /\ \A x \in DOMAIN sessions : sessions'[x] = sessions[x]
                /\ sessions'[sid].created_at = now
                /\ sessions'[sid].last_activity = now
                /\ sessions'[sid].active_request_id = None
                /\ sessions'[sid].active_task = None
                /\ sessions'[sid].user_id \in
                     (IF out'.op = "create" THEN Users ELSE {Anonymous})
                /\ out'.op = "create" => (out'.sid = sid /\ out'.ret)
        /\ \A x \in DOMAIN sessions' : x < nextSid'
        /\ out'.op = "create" => nextSid' # nextSid
      ]_vars

\* a session has just been created next to one that has an active request
C23_Witness ==
    /\ out.op = "create"
    /\ out.sid = 2
    /\ DOMAIN sessions = {1, 2}
    /\ sessions[1].active_task # None
    /\ sessions[2].active_task = None

\* ---------------------------------------------------------------- C24
\* session sid's slot names a task that has already finished
SlotTerminal(sid) ==
    /\ sid \in DOMAIN sessions
    /\ sessions[sid].active_task # None
    /\ done(tasks, sessions[sid].active_task)

\* C24: when a session's stored task has finished, register_request
\* installs the new request and touches no task, cancel_session_request
\* returns False and changes nothing, end_session removes the session and
\* touches no task; no step changes a task that has finished.
C24_TerminalIsNoRequest ==
    [][ /\ \A t \in DOMAIN tasks : done(tasks, t) => tasks'[t] = tasks[t]
        /\ \A sid \in SessionIds :
             SlotTerminal(sid) =>
                /\ \A c \in CallIds :
                     (RegisterStep(c) /\ calls[c].session_id = sid) =>
                        /\ calls'[c].registered
                        /\ sessions'[sid].active_task = c
                        /\ \A t \in DOMAIN tasks : tasks'[t] = tasks[t]
                /\ CancelStep(sid) =>
                     /\ ~out'.ret
                     /\ sessions' = sessions
                     /\ tasks' = tasks
                /\ EndStep(sid) =>
                     /\ out'.ret
                     /\ sid \notin DOMAIN sessions'
                     /\ tasks' = tasks
      ]_vars

\* the request that follows a completed one in the same session has been
\* installed, and the completed one was never asked to stop
C24_Witness ==
    /\ Len(calls) = 2
    /\ calls[2].session_id = calls[1].session_id
    /\ calls[1].registered /\ calls[2].registered
    /\ 2 \in DOMAIN tasks
    /\ tasks[1].state = "completed"
    /\ ~tasks[1].must_cancel
    /\ calls[2].session_id \in DOMAIN sessions
    /\ sessions[calls[2].session_id].active_task = 2

\* ---------------------------------------------------------------- C25
\* C25: get_session_manager returns the same manager on every call until
\* reset_session_manager is called; reset_session_manager ends every
\* session of the current manager, requesting cancellation of each running
\* task, and clears the global; the next get_session_manager constructs a
\* manager that is none of the earlier ones and has zero sessions.
C25_GlobalManager ==
    [][ /\ (manager # None /\ out'.op # "reset") =>
             (manager' = manager /\ managers' = managers)
        /\ (out'.op = "reset" /\ manager # None) =>
             /\ manager' = None
             /\ DOMAIN sessions' = {}
             /\ CancelsExactly(DOMAIN sessions)
        /\ (out'.op = "reset" /\ manager = None) =>
             UNCHANGED <<manager, sessions, tasks>>
        /\ (manager = None /\ manager' # None) =>
             /\ manager' \notin 1 .. managers
             /\ managers' = managers + 1
             /\ get_active_session_count(sessions) = 0
      ]_vars

\* after a reset that cancelled a running request, the manager now in use
\* is the second one and holds only the session just created in it
C25_Witness ==
    /\ manager = 2
    /\ out.op = "create"
    /\ DOMAIN sessions = {out.sid}
    /\ \E t \in DOMAIN tasks :
          /\ tasks[t].must_cancel
          /\ calls[t].registered
          /\ calls[t].session_id \notin DOMAIN sessions

\* ---------------------------------------------------------------- C26
\* C26: once cancellation has been requested for a running pipeline task
\* the request stays on it, the task goes to no further stage, and the
\* first time it is resumed, at the stage call it is suspended in or before
\* it has made one, it ends Cancelled with no result, whatever the port
\* produced; the request itself leaves the task where it is.
C26_CancelObservedAtAwait ==
    [][ \A t \in DOMAIN tasks :
          /\ tasks[t].must_cancel => tasks'[t].must_cancel
          /\ (tasks[t].must_cancel /\ ~done(tasks, t)) =>
                \/ /\ tasks'[t].pc = tasks[t].pc
                   /\ tasks'[t].state = "pending"
                \/ /\ tasks'[t].pc = "end"
                   /\ tasks'[t].state = "cancelled"
                   /\ tasks'[t].result = NoBody
          /\ (~tasks[t].must_cancel /\ tasks'[t].must_cancel) =>
                tasks'[t] = [tasks[t] EXCEPT !.must_cancel = TRUE]
      ]_vars

\* a request asked to stop has ended cancelled and is not answered yet,
\* while the request that replaced it has completed
C26_Witness ==
    \E t, u \in DOMAIN tasks :
        /\ tasks[t].state = "cancelled"
        /\ calls[t].pc = "await"
        /\ calls[u].session_id = calls[t].session_id
        /\ tasks[u].state = "completed"

\* ---------------------------------------------------------------- C27
\* C27: every pipeline task voice_query starts is installed as the active
\* request of the session id it reports, and no task is running without a
\* pending cancellation unless its session is in the store and names it.
C27_EveryTaskInstalled ==
    \A c \in DOMAIN tasks :
        /\ calls[c].registered
        /\ (~done(tasks, c) /\ ~tasks[c].must_cancel) =>
              /\ calls[c].session_id \in DOMAIN sessions
              /\ sessions[calls[c].session_id].active_task = c

\* ---------------------------------------------------------------- C28
\* C28: the step in which a task becomes Completed, Failed or Cancelled and
\* the step that answers its request leave the session store unchanged; a
\* slot that names a finished task changes only by a register_request on
\* its session; the sweep removes a session whose last_activity is older
\* than the timeout whether or not its request is running or just finished.
C28_TerminationKeepsSession ==
    [][ /\ \A t \in DOMAIN tasks :
             (~done(tasks, t) /\ done(tasks', t)) => sessions' = sessions
        /\ \A c \in CallIds : RespondStep(c) => sessions' = sessions
        /\ \A sid \in SessionIds :
             /\ (SlotTerminal(sid) /\ sid \in DOMAIN sessions'
                   /\ sessions'[sid] # sessions[sid]) =>
                  \E c \in CallIds :
                      RegisterStep(c) /\ calls[c].session_id = sid
             /\ (out'.op = "cleanup" /\ sid \in DOMAIN sessions
                   /\ sessions[sid].last_activity < now - SessionTimeout) =>
                  sid \notin DOMAIN sessions'
      ]_vars

\* a request has completed and been answered after the clock moved on, and
\* its session still carries the activity time of the registration and
\* names the finished request
C28_Witness ==
    \E sid \in DOMAIN sessions :
        /\ sessions[sid].active_task # None
        /\ tasks[sessions[sid].active_task].state = "completed"
        /\ calls[sessions[sid].active_task].pc = "done"
        /\ sessions[sid].last_activity < now
        /\ sid \in expired_sessions(sessions, now)

\* ---------------------------------------------------------------- C29
\* session sid has been idle for longer than the timeout
Idle(sid) ==
    /\ sid \in DOMAIN sessions
    /\ sessions[sid].last_activity < now - SessionTimeout

\* C29: a session is removed only by end_session or by the sweep; a session
\* idle for longer than the timeout is still returned by get_session, is
\* used by voice_query as it is, and accepts register_request, which
\* returns True and refreshes last_activity, after which a sweep would not
\* remove it.
C29_ExpiryOnlyBySweep ==
    [][ \A sid \in SessionIds :
          /\ (sid \in DOMAIN sessions /\ sid \notin DOMAIN sessions') =>
                (EndStep(sid) \/ out'.op = "cleanup")
          /\ Idle(sid) =>
                /\ get_session(sessions, sid) = {sessions[sid]}
                /\ QueryStep(sid) =>
                      /\ calls'[Len(calls')].session_id = sid
                      /\ sessions' = sessions
                /\ \A c \in CallIds :
                      (RegisterStep(c) /\ calls[c].session_id = sid) =>
                         /\ calls'[c].registered
                         /\ sessions'[sid].last_activity = now
                         /\ sid \in DOMAIN
                              cleanup_expired_sessions(sessions', tasks', now).sessions
      ]_vars

\* a session created earlier got its first request after the timeout had
\* passed, and the sweep that has just run left it in the store
C29_Witness ==
    /\ out.op = "cleanup" /\ out.ret = 0
    /\ Len(calls) = 1
    /\ calls[1].registered
    /\ calls[1].session_id \in DOMAIN sessions
    /\ sessions[calls[1].session_id].active_task = 1
    /\ sessions[calls[1].session_id].created_at < now - SessionTimeout
    /\ sessions[calls[1].session_id].last_activity = now

\* ---------------------------------------------------------------- C30
\* C30: whoever calls the end-session endpoint, an existing session is
\* ended as end_session ends it: the session is removed, its running
\* request has cancellation requested and the answer is ended = True; the
\* answer is ended = False only when the session is absent at the call, and
\* then nothing changes.
C30_EndIgnoresCaller ==
    [][ \A sid \in SessionIds \cup {UnknownId} :
          (out'.op = "end" /\ out'.sid = sid) =>
             IF sid \in DOMAIN sessions
             THEN /\ out'.ret = TRUE
                  /\ out'.msg = "Session ended successfully"
                  /\ sessions' = end_session(sessions, tasks, sid).sessions
                  /\ tasks' = end_session(sessions, tasks, sid).tasks
                  /\ sid \notin DOMAIN sessions'
                  /\ running(sessions, tasks, sid) =>
                        tasks'[sessions[sid].active_task].must_cancel
             ELSE /\ out'.ret = FALSE
                  /\ out'.msg = "Session not found"
                  /\ out'.log = ""
                  /\ sessions' = sessions
                  /\ tasks' = tasks
      ]_vars

\* a caller who does not own the session has just ended it under its
\* running request
C30_Witness ==
    /\ out.op = "end" /\ out.ret = TRUE
    /\ out.log = NotOwner
    /\ out.sid \notin DOMAIN sessions
    /\ \E t \in DOMAIN tasks :
          /\ calls[t].session_id = out.sid
          /\ calls[t].registered
          /\ tasks[t].must_cancel /\ ~done(tasks, t)

====
